---- MODULE Spec2Model ----
(***************************************************************************)
(* TPContext of exllamav2/tensor_p.py: the tensor-parallel split planner   *)
(* (define_split), the staging allocation and engine construction          *)
(* (finalize), teardown (unload) and the split-dependent operations        *)
(* (broadcast, gather, add_residual, wait_streams).                        *)
(*                                                                         *)
(* Python values are represented as follows.  A list is a sequence, so the *)
(* device id of position i of a weight vector is i - 1.  A split table     *)
(* entry (d, a, b) is the tuple <<d, a, b>>.  None is NoSplit for the      *)
(* gpu_split argument, NoLen for cfg.max_output_len, NoHandle for          *)
(* ext_tp_context, NoDevice for device, NoTensor for pinned_temp and       *)
(* NoList for device_temp and streams.                                     *)
(***************************************************************************)
EXTENDS Integers, Sequences, FiniteSets, TLC

\* ---------------------------------------------------------------- constants

BROADCAST_KV == 0
BROADCAST_ID == 1
BROADCAST_VC == 2
BROADCAST_RS == 3
BROADCAST_Q == 4

\* ---------------------------------------------------------------- bounds

\* longest weight vector (number of devices) the planner is run on
MaxDevices == 3
\* largest weight of one device in an explicit gpu_split (and [3, 1], the
\* documented scenario)
MaxWeight == 2
\* largest free-memory amount get_all_gpu_memory() reports for one device
MaxFree == 1
\* key/value head counts 1..MaxHeads (and 32, the documented scenario)
MaxHeads == 2
\* head-group ratios 1..MaxGroups (and 4, the documented scenario)
MaxGroups == 1
\* axis widths of up to MaxUnits quanta (128 or 32 wide)
MaxUnits == 2
\* finalize is run at most MaxHandles times in one behaviour
MaxHandles == 2
\* axis kinds 0..MaxType are passed to the split-dependent operations
MaxType == 5
\* output dimension multipliers 1..MaxDim
MaxDim == 1
\* cfg.max_input_len and the non-None cfg.max_output_len
MaxInputLen == 2
MaxOutputLen == 3

\* ---------------------------------------------------------------- None values

NoSplit == <<>>
NoLen == -1
NoHandle == 0
NoDevice == -1
NoList == <<>>
NoTensor == [kind |-> "None", device |-> -1, size |-> 0]
none_tensor == [kind |-> "none_tensor", device |-> -1, size |-> 0]
NoMemory == [k \in {} |-> 0]

\* ---------------------------------------------------------------- helpers

RECURSIVE SeqSum(_)
SeqSum(s) == IF s = <<>> THEN 0 ELSE Head(s) + SeqSum(Tail(s))

SetMax(S) == CHOOSE x \in S : \A y \in S : y <= x

SetMin(S) == CHOOSE x \in S : \A y \in S : x <= y

\* sorted(S) for a finite set of integers
RECURSIVE sorted(_)
sorted(S) == IF S = {} THEN <<>> ELSE <<SetMin(S)>> \o sorted(S \ {SetMin(S)})

Range(s) == {s[i] : i \in DOMAIN s}

Devices(split) == {split[i][1] : i \in DOMAIN split}

\* ---------------------------------------------------------------- util.integer_split

\* remainders.index(max(remainders)): the lowest index holding the maximum
MaxIndex(remainders) ==
    CHOOSE i \in DOMAIN remainders :
        /\ \A j \in DOMAIN remainders : remainders[j] <= remainders[i]
        /\ \A j \in DOMAIN remainders : j < i => remainders[j] < remainders[i]

\* hands the units the floors left over to the largest remainders, one each;
\* remainders are kept as numerators over sum_split
RECURSIVE Distribute(_, _, _, _)
Distribute(portions, remainders, remaining, sum_split) ==
    IF remaining <= 0 THEN portions
    ELSE LET i == MaxIndex(remainders)
         IN  Distribute([portions EXCEPT ![i] = @ + 1],
                        [remainders EXCEPT ![i] = @ - sum_split],
                        remaining - 1, sum_split)

\* largest-remainder apportionment of x units over the weights `split`
integer_split(x, split) ==
    LET sum_split == SeqSum(split)
        portions == [i \in DOMAIN split |-> (x * split[i]) \div sum_split]
        remainders == [i \in DOMAIN split |-> (x * split[i]) % sum_split]
    IN  Distribute(portions, remainders, x - SeqSum(portions), sum_split)

\* ---------------------------------------------------------------- define_split

\* every device gets an entry, also one with nothing allocated to it
RECURSIVE set_split_loop_keep_empty(_, _, _, _)
set_split_loop_keep_empty(raw_split, i, b, split) ==
    IF i > Len(raw_split) THEN split
    ELSE set_split_loop_keep_empty(raw_split, i + 1, b + raw_split[i],
                                   Append(split, <<i - 1, b, b + raw_split[i]>>))

set_split_keep_empty(raw_split) == set_split_loop_keep_empty(raw_split, 1, 0, <<>>)

\* the loop of set_split: position i is device d = i - 1, s = raw_split[i]
RECURSIVE set_split_loop(_, _, _, _)
set_split_loop(raw_split, i, b, split) ==
    IF i > Len(raw_split) THEN split
    ELSE LET d == i - 1
             s == raw_split[i]
             a == b
         IN  set_split_loop(raw_split, i + 1, a + s,
                            IF s # 0 THEN Append(split, <<d, a, a + s>>) ELSE split)

set_split(raw_split) == set_split_loop(raw_split, 1, 0, <<>>)

Scaled(raw, k) == [i \in DOMAIN raw |-> raw[i] * k]

raw_kv_split(c, g) == integer_split(c.num_key_value_heads, g)

\* the query heads balanced on their own instead of following the kv heads
raw_q_split_independent(c, g) ==
    integer_split(c.num_key_value_heads * c.num_key_value_groups, g)

raw_q_split(c, g) == Scaled(raw_kv_split(c, g), c.num_key_value_groups)

\* the intermediate width split without the 128 quantum
raw_id_split_unquantized(c, g) == integer_split(c.intermediate_size, g)

raw_id_split(c, g) == Scaled(integer_split(c.intermediate_size \div 128, g), 128)

raw_vc_split(c, g) == Scaled(integer_split(c.vocab_size \div 32, g), 32)

raw_rs_split(c, g) == Scaled(integer_split(c.hidden_size \div 32, g), 32)

\* gpu_split as built from get_all_gpu_memory() when the argument is None
split_from_memory(gpu_memory) ==
    [i \in 1..(SetMax(DOMAIN gpu_memory) + 1) |->
        IF (i - 1) \in DOMAIN gpu_memory THEN gpu_memory[i - 1] ELSE 0]

effective_split(g, gpu_memory) ==
    IF g = NoSplit THEN split_from_memory(gpu_memory) ELSE g

\* all_devices() over the tables it reads
all_devices(kv, id, vc) == sorted(Devices(kv) \cup Devices(id) \cup Devices(vc))

\* the asserts of __init__
ConstructorAccepts(c) ==
    /\ c.supports_tp
    /\ c.intermediate_size % 128 = 0

\* ---------------------------------------------------------------- state

VARIABLES
    cfg,            \* self.model.config
    gpu_split,      \* the weight vector define_split last worked on
    kv_split, id_split, vc_split, rs_split, q_split,
    device,
    pinned_temp, device_temp, streams,
    ext_tp_context,
    tp_contexts,    \* ext_c: the native contexts made and not freed
    made_with,      \* ext_c: the arguments of the latest make_tp_context
    made,           \* ext_c: how many contexts were made
    double_free,    \* ext_c: free_tp_context was given a context that is not live
    lastOp, lastArgs, result, effects   \* the latest call and what it issued

splits == <<kv_split, id_split, vc_split, rs_split, q_split>>

staging == <<pinned_temp, device_temp, streams>>

context == <<cfg, splits, device, staging, ext_tp_context>>

native == <<tp_contexts, made_with, made, double_free>>

call == <<lastOp, lastArgs, result, effects>>

vars == <<context, gpu_split, native, call>>

NoArgs ==
    [kv_split |-> NoList, id_split |-> NoList, vc_split |-> NoList,
     rs_split |-> NoList, q_split |-> NoList, pinned_temp |-> NoTensor,
     device_temp |-> NoList, streams |-> NoList]

\* ---------------------------------------------------------------- inputs

GpuSplits(n, w) ==
    {g \in UNION {[1..k -> 0..w] : k \in 1..n} : \E i \in DOMAIN g : g[i] > 0}

Inventories(n, w) ==
    {m \in UNION {[S -> 0..w] : S \in (SUBSET (0..(n - 1))) \ {{}}} :
        \E k \in DOMAIN m : m[k] > 0}

\* the arguments of define_split: a weight vector, or None and what
\* get_all_gpu_memory() then reports
SplitArgs(n, w, f) ==
    {[gpu_split |-> g, gpu_memory |-> NoMemory] : g \in GpuSplits(n, w)}
    \cup {[gpu_split |-> NoSplit, gpu_memory |-> m] : m \in Inventories(n, f)}

Widths(quantum, odd) == {quantum * k : k \in 1..MaxUnits} \cup {quantum + odd}

PlanConfigs ==
    [supports_tp : BOOLEAN,
     num_key_value_heads : (1..MaxHeads) \cup {32},
     num_key_value_groups : (1..MaxGroups) \cup {4},
     intermediate_size : Widths(128, 64),
     vocab_size : Widths(32, 1),
     hidden_size : Widths(32, 1),
     max_input_len : {MaxInputLen},
     max_output_len : {NoLen}]

PlanArgs ==
    SplitArgs(MaxDevices, MaxWeight, MaxFree)
    \cup {[gpu_split |-> <<3, 1>>, gpu_memory |-> NoMemory]}

LifeConfigs ==
    [supports_tp : {TRUE},
     num_key_value_heads : {1, 2},
     num_key_value_groups : {2},
     intermediate_size : {128},
     vocab_size : {32},
     hidden_size : {32, 64},
     max_input_len : {MaxInputLen},
     max_output_len : {NoLen, MaxOutputLen}]

LifeArgs == SplitArgs(2, 1, 1)

\* ---------------------------------------------------------------- __init__

\* the fields as define_split sets them for the weights g
SplitsSet(c, g) ==
    /\ kv_split' = set_split(raw_kv_split(c, g))
    /\ id_split' = set_split(raw_id_split(c, g))
    /\ vc_split' = set_split(raw_vc_split(c, g))
    /\ rs_split' = set_split(raw_rs_split(c, g))
    /\ q_split' = set_split(raw_q_split(c, g))
    /\ device' = all_devices(kv_split', id_split', vc_split')[1]
    /\ gpu_split' = g

MemoryQueried(arg) ==
    IF arg.gpu_split = NoSplit THEN <<<<"get_all_gpu_memory", 0, 0, 0>>>> ELSE <<>>

\* a context under construction: the fields as lines 50-62 leave them
New(c) ==
    /\ cfg = c
    /\ gpu_split = NoSplit
    /\ kv_split = NoList
    /\ id_split = NoList
    /\ vc_split = NoList
    /\ rs_split = NoList
    /\ q_split = NoList
    /\ device = NoDevice
    /\ pinned_temp = NoTensor
    /\ device_temp = NoList
    /\ streams = NoList
    /\ ext_tp_context = NoHandle
    /\ tp_contexts = {}
    /\ made_with = NoArgs
    /\ made = 0
    /\ double_free = FALSE
    /\ lastOp = "new"
    /\ lastArgs = <<>>
    /\ result = "ok"
    /\ effects = <<>>

\* TPContext(model, gpu_split), gpu_split (and what get_all_gpu_memory()
\* reports) drawn from args: the asserts, then define_split
TPContext_init(args) ==
    /\ lastOp = "new"
    /\ result = "ok"
    /\ lastArgs' = <<>>
    /\ IF ConstructorAccepts(cfg)
       THEN \E arg \in args :
               /\ SplitsSet(cfg, effective_split(arg.gpu_split, arg.gpu_memory))
               /\ lastOp' = "__init__"
               /\ result' = "ok"
               /\ effects' = MemoryQueried(arg)
       ELSE /\ lastOp' = "new"
            /\ result' = "AssertionError"
            /\ effects' = <<>>
            /\ UNCHANGED <<splits, device, gpu_split>>
    /\ UNCHANGED <<cfg, staging, ext_tp_context, native>>

\* the context TPContext(model, gpu_split) returns
Constructed(c, arg) ==
    LET g == effective_split(arg.gpu_split, arg.gpu_memory)
        kv == set_split(raw_kv_split(c, g))
        id == set_split(raw_id_split(c, g))
        vc == set_split(raw_vc_split(c, g))
    IN  /\ ConstructorAccepts(c)
        /\ cfg = c
        /\ gpu_split = g
        /\ kv_split = kv
        /\ id_split = id
        /\ vc_split = vc
        /\ rs_split = set_split(raw_rs_split(c, g))
        /\ q_split = set_split(raw_q_split(c, g))
        /\ device = all_devices(kv, id, vc)[1]
        /\ pinned_temp = NoTensor
        /\ device_temp = NoList
        /\ streams = NoList
        /\ ext_tp_context = NoHandle
        /\ tp_contexts = {}
        /\ made_with = NoArgs
        /\ made = 0
        /\ double_free = FALSE
        /\ lastOp = "__init__"
        /\ lastArgs = <<>>
        /\ result = "ok"
        /\ effects = MemoryQueried(arg)

InitPlan == \E c \in PlanConfigs : New(c)

Init == \E c \in LifeConfigs, arg \in LifeArgs : Constructed(c, arg)

\* ---------------------------------------------------------------- define_split

define_split(arg) ==
    /\ lastOp # "new"
    /\ SplitsSet(cfg, effective_split(arg.gpu_split, arg.gpu_memory))
    /\ lastOp' = "define_split"
    /\ lastArgs' = <<>>
    /\ result' = "ok"
    /\ effects' = MemoryQueried(arg)
    /\ UNCHANGED <<cfg, staging, ext_tp_context, native>>

\* ---------------------------------------------------------------- finalize

staging_size(c) ==
    LET size == (IF c.max_output_len # NoLen THEN c.max_output_len
                 ELSE c.max_input_len) * c.vocab_size
        other == c.max_input_len * c.intermediate_size
    IN  IF size >= other THEN size ELSE other

pinned(size) == [kind |-> "pinned", device |-> -1, size |-> size]

on_device(idx, size) == [kind |-> "device", device |-> idx, size |-> size]

finalize ==
    LET size == staging_size(cfg)
        devices == all_devices(kv_split, id_split, vc_split)
        max_device == SetMax(Range(devices))
        handle == made + 1
    IN  /\ lastOp # "new"
        /\ made < MaxHandles
        /\ pinned_temp' = pinned(size)
        /\ device_temp' = [i \in 1..(max_device + 1) |->
                             IF (i - 1) \in Range(devices)
                             THEN on_device(i - 1, size) ELSE none_tensor]
        /\ streams' = devices
        /\ ext_tp_context' = handle
        /\ tp_contexts' = tp_contexts \cup {handle}
        /\ made_with' = [kv_split |-> kv_split, id_split |-> id_split,
                         vc_split |-> vc_split, rs_split |-> rs_split,
                         q_split |-> q_split, pinned_temp |-> pinned_temp',
                         device_temp |-> device_temp', streams |-> streams']
        /\ made' = handle
        /\ lastOp' = "finalize"
        /\ lastArgs' = <<>>
        /\ result' = "ok"
        /\ effects' = <<<<"empty", -1, size, 0>>>>
                      \o [i \in 1..Len(devices) |-> <<"empty_like", devices[i], size, 0>>]
                      \o <<<<"make_tp_context", handle, 0, 0>>>>
        /\ UNCHANGED <<cfg, splits, device, gpu_split, double_free>>

\* ---------------------------------------------------------------- unload

\* frees the handle and keeps it
unload_keeps_handle ==
    /\ lastOp # "new"
    /\ IF ext_tp_context # NoHandle
       THEN /\ effects' = <<<<"free_tp_context", ext_tp_context, 0, 0>>>>
            /\ tp_contexts' = tp_contexts \ {ext_tp_context}
            /\ double_free' = (double_free \/ ext_tp_context \notin tp_contexts)
            /\ ext_tp_context' = ext_tp_context
       ELSE /\ effects' = <<>>
            /\ UNCHANGED <<tp_contexts, double_free, ext_tp_context>>
    /\ lastOp' = "unload"
    /\ lastArgs' = <<>>
    /\ result' = "ok"
    /\ UNCHANGED <<cfg, splits, device, staging, gpu_split, made_with, made>>

unload ==
    /\ lastOp # "new"
    /\ IF ext_tp_context # NoHandle
       THEN /\ effects' = <<<<"free_tp_context", ext_tp_context, 0, 0>>>>
            /\ tp_contexts' = tp_contexts \ {ext_tp_context}
            /\ double_free' = (double_free \/ ext_tp_context \notin tp_contexts)
            /\ ext_tp_context' = NoHandle
       ELSE /\ effects' = <<>>
            /\ UNCHANGED <<tp_contexts, double_free, ext_tp_context>>
    /\ lastOp' = "unload"
    /\ lastArgs' = <<>>
    /\ result' = "ok"
    /\ UNCHANGED <<cfg, splits, device, staging, gpu_split, made_with, made>>

\* ---------------------------------------------------------------- get_split

raised == [raises |-> TRUE, split |-> <<>>]

returned(split) == [raises |-> FALSE, split |-> split]

\* an unknown kind falls back to the key/value table
get_split_default(broadcast_type) ==
    IF broadcast_type = BROADCAST_ID THEN returned(id_split)
    ELSE IF broadcast_type = BROADCAST_VC THEN returned(vc_split)
    ELSE IF broadcast_type = BROADCAST_RS THEN returned(rs_split)
    ELSE IF broadcast_type = BROADCAST_Q THEN returned(q_split)
    ELSE returned(kv_split)

get_split(broadcast_type) ==
    IF broadcast_type = BROADCAST_KV THEN returned(kv_split)
    ELSE IF broadcast_type = BROADCAST_ID THEN returned(id_split)
    ELSE IF broadcast_type = BROADCAST_VC THEN returned(vc_split)
    ELSE IF broadcast_type = BROADCAST_RS THEN returned(rs_split)
    ELSE IF broadcast_type = BROADCAST_Q THEN returned(q_split)
    ELSE raised

\* ---------------------------------------------------------------- collectives

BroadcastTypes == 0..MaxType

Dims == 1..MaxDim

InputDevices == 0..1

\* what a call into ext_c can end in: with a live context it returns; what it
\* does with None in place of a context is not decided by the Python code
native_outcomes(handle) ==
    IF handle \in tp_contexts THEN {"ok"} ELSE {"ok", "NativeError"}

Called(op, args) ==
    /\ lastOp # "new"
    /\ lastOp' = op
    /\ lastArgs' = args
    /\ UNCHANGED <<context, gpu_split, native>>

broadcast(input_device, broadcast_type, dim) ==
    LET got == get_split(broadcast_type)
        split == got.split
        others == SelectSeq(split, LAMBDA e : e[1] # input_device)
        allocated == [i \in 1..Len(others) |-> <<"empty_like", others[i][1], 0, 0>>]
    IN  /\ Called("broadcast", <<broadcast_type, dim, input_device>>)
        /\ IF got.raises
           THEN /\ result' = "ValueError"
                /\ effects' = <<>>
           ELSE /\ effects' = allocated
                      \o <<<<"tp_broadcast", ext_tp_context, broadcast_type, dim>>>>
                /\ \E r \in native_outcomes(ext_tp_context) : result' = r

gather(broadcast_type, dim) ==
    LET got == get_split(broadcast_type)
        split == got.split
    IN  /\ Called("gather", <<broadcast_type, dim>>)
        /\ IF got.raises
           THEN /\ result' = "ValueError"
                /\ effects' = <<>>
           ELSE /\ effects' = <<<<"tp_gather", ext_tp_context, broadcast_type, dim>>>>
                /\ \E r \in native_outcomes(ext_tp_context) :
                      result' = IF r # "ok" THEN r
                                ELSE IF split = <<>> THEN "IndexError"
                                ELSE IF pinned_temp = NoTensor THEN "TypeError"
                                ELSE "ok"

add_residual(broadcast_type, dim) ==
    LET got == get_split(broadcast_type)
        split == got.split
        step(e) == << <<"get_device_context", e[1], 0, 0>>,
                      <<"set_stream", e[1], 0, 0>>,
                      <<"add_", e[1], e[2] * dim, e[3] * dim>> >>
    IN  /\ Called("add_residual", <<broadcast_type, dim>>)
        /\ IF got.raises
           THEN /\ result' = "ValueError"
                /\ effects' = <<>>
           ELSE /\ result' = "ok"
                /\ effects' = [i \in 1..(3 * Len(split)) |->
                                  step(split[((i - 1) \div 3) + 1])[((i - 1) % 3) + 1]]

wait_streams(broadcast_type) ==
    LET got == get_split(broadcast_type)
        split == got.split
    IN  /\ Called("wait_streams", <<broadcast_type>>)
        /\ IF got.raises
           THEN /\ result' = "ValueError"
                /\ effects' = <<>>
           ELSE /\ result' = "ok"
                /\ effects' = [i \in 1..Len(split) |-> <<"synchronize", split[i][1], 0, 0>>]
                              \o <<<<"cuda_synchronize", 0, 0, 0>>>>

\* ---------------------------------------------------------------- specifications

NextPlan == TPContext_init(PlanArgs)

SpecPlan == InitPlan /\ [][NextPlan]_vars

Next ==
    \/ \E arg \in LifeArgs : define_split(arg)
    \/ finalize
    \/ unload
    \/ \E d \in InputDevices, t \in BroadcastTypes, dim \in Dims : broadcast(d, t, dim)
    \/ \E t \in BroadcastTypes, dim \in Dims : gather(t, dim)
    \/ \E t \in BroadcastTypes, dim \in Dims : add_residual(t, dim)
    \/ \E t \in BroadcastTypes : wait_streams(t)

Spec == Init /\ [][Next]_vars

\* ---------------------------------------------------------------- properties

Entries(split) == Range(split)

Tables == <<kv_split, q_split, id_split, vc_split, rs_split>>

AxisSizes ==
    <<cfg.num_key_value_heads,
      cfg.num_key_value_heads * cfg.num_key_value_groups,
      cfg.intermediate_size, cfg.vocab_size, cfg.hidden_size>>

Width(split) == SeqSum([i \in DOMAIN split |-> split[i][3] - split[i][2]])

\* split covers [0, n) exactly once, in strictly increasing device order
Covers(split, n) ==
    /\ split # <<>>
    /\ split[1][2] = 0
    /\ \A i \in 2..Len(split) : split[i][2] = split[i - 1][3]
    /\ split[Len(split)][3] = n
    /\ Width(split) = n
    /\ \A i \in 2..Len(split) : split[i - 1][1] < split[i][1]

IsConstructed == lastOp = "__init__"

\* C1: after construction each of the five split tables covers [0, axis_size)
\* of its axis exactly once: it starts at 0, every entry starts where the
\* previous one ends, the last ends at axis_size, the widths sum to axis_size
\* and the device ids strictly increase.
C1_SplitsCoverAxes ==
    IsConstructed => \A k \in 1..5 : Covers(Tables[k], AxisSizes[k])

\* The same for the axes define_split does not round down: key/value heads,
\* query heads and the intermediate width; and for the vocabulary and the
\* residual width when they are multiples of 32.
SplitsCoverDivisibleAxes ==
    IsConstructed =>
        \A k \in 1..5 :
            (k \in 1..3 \/ AxisSizes[k] % 32 = 0) => Covers(Tables[k], AxisSizes[k])

\* C2: after define_split every entry of every split table has start < end, a
\* device of weight zero and a device that was allocated nothing have no entry
\* in the table, and the call raises nothing.
C2_NoEmptyEntries ==
    IsConstructed =>
        /\ result = "ok"
        /\ \A k \in 1..5 : \A e \in Entries(Tables[k]) : e[2] < e[3]
        /\ \A i \in DOMAIN gpu_split :
              gpu_split[i] = 0 => \A k \in 1..5 : (i - 1) \notin Devices(Tables[k])
        /\ LET raw == <<raw_kv_split(cfg, gpu_split), raw_q_split(cfg, gpu_split),
                        raw_id_split(cfg, gpu_split), raw_vc_split(cfg, gpu_split),
                        raw_rs_split(cfg, gpu_split)>>
           IN  \A k \in 1..5 : \A i \in DOMAIN gpu_split :
                   raw[k][i] = 0 => (i - 1) \notin Devices(Tables[k])

\* a zero-weight device next to a device that has weight and still gets no
\* key/value head
C2_Witness ==
    /\ IsConstructed
    /\ \E i \in DOMAIN gpu_split : gpu_split[i] = 0
    /\ \E i \in DOMAIN gpu_split :
          gpu_split[i] > 0 /\ (i - 1) \notin Devices(kv_split)
    /\ Len(rs_split) >= 2

\* C3: after define_split every start and end of id_split is a multiple of
\* 128 and every start and end of vc_split and rs_split is a multiple of 32.
C3_QuantizedBoundaries ==
    IsConstructed =>
        /\ \A e \in Entries(id_split) : e[2] % 128 = 0 /\ e[3] % 128 = 0
        /\ \A e \in Entries(vc_split) : e[2] % 32 = 0 /\ e[3] % 32 = 0
        /\ \A e \in Entries(rs_split) : e[2] % 32 = 0 /\ e[3] % 32 = 0

\* all three quantized axes are shared between devices
C3_Witness ==
    /\ IsConstructed
    /\ Len(id_split) >= 2
    /\ Len(vc_split) >= 2
    /\ Len(rs_split) >= 2

\* C4: after define_split q_split has the entries of kv_split, device for
\* device and in the same order, with start and end multiplied by
\* num_key_value_groups; 32 key/value heads with weights [3, 1] and ratio 4
\* give kv [(0,0,24),(1,24,32)] and q [(0,0,96),(1,96,128)].
C4_QueryFollowsKV ==
    IsConstructed =>
        /\ Len(q_split) = Len(kv_split)
        /\ \A i \in DOMAIN kv_split :
              q_split[i] = <<kv_split[i][1],
                             kv_split[i][2] * cfg.num_key_value_groups,
                             kv_split[i][3] * cfg.num_key_value_groups>>
        /\ (/\ cfg.num_key_value_heads = 32
            /\ cfg.num_key_value_groups = 4
            /\ gpu_split = <<3, 1>>)
           => /\ kv_split = << <<0, 0, 24>>, <<1, 24, 32>> >>
              /\ q_split = << <<0, 0, 96>>, <<1, 96, 128>> >>

\* the documented scenario
C4_Witness ==
    /\ IsConstructed
    /\ cfg.num_key_value_heads = 32
    /\ cfg.num_key_value_groups = 4
    /\ gpu_split = <<3, 1>>
    /\ Len(q_split) = 2

AnySplitDevices == UNION {Devices(Tables[k]) : k \in 1..5}

HasBuffer(temp, d, size) ==
    /\ (d + 1) \in DOMAIN temp
    /\ temp[d + 1] = on_device(d, size)

HasNoBuffer(temp, d) ==
    (d + 1) \in DOMAIN temp => temp[d + 1] = none_tensor

\* C5: after finalize every device of any of the five split tables has a
\* device buffer of the size of the pinned buffer in device_temp, and every
\* other device has the none_tensor placeholder or no slot.
C5_StagingMatchesParticipants ==
    lastOp = "finalize" =>
        \A d \in 0..(MaxDevices + 1) :
            IF d \in AnySplitDevices
            THEN HasBuffer(device_temp, d, pinned_temp.size)
            ELSE HasNoBuffer(device_temp, d)

IsNativeCall(e) == e[1] \in {"tp_broadcast", "tp_gather"}

ValidTypes == {BROADCAST_KV, BROADCAST_ID, BROADCAST_VC, BROADCAST_RS, BROADCAST_Q}

\* C6: broadcast or gather on a context without an engine handle raises a
\* lifecycle error, and nothing is forwarded to the native engine.
C6_CollectiveNeedsHandle ==
    (/\ lastOp \in {"broadcast", "gather"}
     /\ lastArgs[1] \in ValidTypes
     /\ ext_tp_context = NoHandle)
    => /\ result = "LifecycleError"
       /\ \A e \in Entries(effects) : ~IsNativeCall(e)

\* C7: finalize on a context that holds an engine handle raises a lifecycle
\* error and neither allocates staging buffers nor makes a second handle, so
\* every native context that is live is the one the context holds.
C7_FinalizeOnceOnly ==
    /\ [][(ext_tp_context # NoHandle /\ lastOp' = "finalize")
            => (result' = "LifecycleError" /\ UNCHANGED <<staging, ext_tp_context, native>>)]_vars
    /\ [](tp_contexts \subseteq {ext_tp_context})

\* C8: unload frees the engine handle only when one is held and clears it;
\* without a handle it makes no native call, raises nothing and changes
\* nothing of the context; no handle is freed twice.
C8_UnloadIdempotent ==
    /\ [][lastOp' = "unload" =>
            /\ result' = "ok"
            /\ ext_tp_context' = NoHandle
            /\ IF ext_tp_context = NoHandle
               THEN effects' = <<>> /\ UNCHANGED <<context, native>>
               ELSE /\ effects' = <<<<"free_tp_context", ext_tp_context, 0, 0>>>>
                    /\ ext_tp_context \in tp_contexts
                    /\ tp_contexts' = tp_contexts \ {ext_tp_context}]_vars
    /\ [](~double_free)

\* an unload that found nothing to free, after an unload that freed a handle
C8_Witness ==
    /\ lastOp = "unload"
    /\ effects = <<>>
    /\ made > 0
    /\ ext_tp_context = NoHandle
    /\ tp_contexts = {}

SplitOps == {"broadcast", "gather", "add_residual", "wait_streams"}

\* C9: with an axis kind other than the five defined ones, broadcast, gather,
\* add_residual and wait_streams end in the error get_split raises, issue no
\* native call, allocation, stream switch or synchronization, and leave the
\* split tables, the staging buffers and the engine handle as they were.
C9_UnknownKindFailsFirst ==
    [][(lastOp' \in SplitOps /\ lastArgs'[1] \notin ValidTypes) =>
          /\ result' = "ValueError"
          /\ effects' = <<>>
          /\ UNCHANGED <<context, native>>]_vars

\* each of the four operations was refused on a finalized context
C9_Witness ==
    /\ lastOp \in SplitOps
    /\ lastArgs[1] \notin ValidTypes
    /\ result = "ValueError"
    /\ ext_tp_context # NoHandle
    /\ Len(rs_split) >= 2

\* the table part alone: the context's tables are the engine's
EngineTablesMatch ==
    ext_tp_context # NoHandle =>
        <<made_with.kv_split, made_with.id_split, made_with.vc_split,
          made_with.rs_split, made_with.q_split>> = splits

\* C10: while the context holds an engine handle, its five split tables are
\* the ones the native engine was made with, and every device in them has a
\* staging buffer and a stream among those handed to the engine.
C10_EngineMatchesContext ==
    ext_tp_context # NoHandle =>
        /\ made_with.kv_split = kv_split
        /\ made_with.id_split = id_split
        /\ made_with.vc_split = vc_split
        /\ made_with.rs_split = rs_split
        /\ made_with.q_split = q_split
        /\ \A d \in AnySplitDevices :
              /\ HasBuffer(made_with.device_temp, d, made_with.pinned_temp.size)
              /\ d \in Range(made_with.streams)

====
